---- MODULE Spec2Model ----
(***************************************************************************)
(* Model of transx2gtfs: the timetable materialization and calendar        *)
(* resolution code (transxchange.py, stop_times.py, trips.py, calendar.py).*)
(* Text is modelled as sequences of one-character strings, so that split,  *)
(* substring tests, lower-casing and string formatting are computed the    *)
(* way the Python code computes them.                                      *)
(***************************************************************************)
EXTENDS Integers, Sequences, FiniteSets, TLC

VARIABLES
    runtime,        \* parse_runtime_duration: the duration code given
    duration_out,   \* parse_runtime_duration: its outcome
    dayinfo,        \* parse_day_range: the pair of weekly-pattern strings given
    day_info,       \* parse_day_range: the outcome for each string of the pair
    doc,            \* the parsed document handed to process_vehicle_journeys
    pc,             \* position of the conversion run
    i,              \* index of the next vehicle journey to process
    gtfs_info,      \* the table built by process_vehicle_journeys
    section_times,  \* the local table of the section walked last
    stop_times,     \* result of get_stop_times
    trips,          \* result of get_trips
    calendar,       \* result of get_calendar
    calendar_dates, \* result of get_calendar_dates
    bank_holidays,  \* what get_bank_holiday_dates returned to get_calendar_dates
    queries,        \* number of calls of get_bank_holiday_dates
    data,           \* stops.py: the StopPoints of the document
    naptan_stops,   \* stops.py: the NaPTAN reference table
    stop_data       \* stops.py: the outcome of the stop reader

vars == <<runtime, duration_out, dayinfo, day_info, doc, pc, i, gtfs_info,
          section_times, stop_times, trips, calendar, calendar_dates,
          bank_holidays, queries, data, naptan_stops, stop_data>>

\* The variables of the calendar tables and those of the stop reader.
calendarVars == <<calendar, calendar_dates, bank_holidays, queries>>

stopVars == <<data, naptan_stops, stop_data>>

-----------------------------------------------------------------------------
(* Python values and built-ins used by the code *)

\* Python's None, kept apart from every string (the empty string included).
None == <<"<None>">>

\* An element that is not in the document (attribute access on it raises).
Absent == <<None>>

\* A local table name that is not bound yet.
Unbound == <<[unbound |-> TRUE]>>

\* The decimal digits; the value of a digit is its position minus one.
DigitChars == <<"0", "1", "2", "3", "4", "5", "6", "7", "8", "9">>

DigitValue(c) == (CHOOSE k \in 1..Len(DigitChars) : DigitChars[k] = c) - 1

IsDigit(c) == \E k \in 1..Len(DigitChars) : DigitChars[k] = c

\* `sub in s` for strings.
Contains(s, sub) ==
    \E k \in 1..(Len(s) - Len(sub) + 1) : SubSeq(s, k, k + Len(sub) - 1) = sub

\* s.split(sep): the pieces between the non-overlapping occurrences of sep,
\* scanned from the left.
RECURSIVE SplitFrom(_, _, _, _)
SplitFrom(s, sep, start, k) ==
    IF k + Len(sep) - 1 > Len(s)
    THEN <<SubSeq(s, start, Len(s))>>
    ELSE IF SubSeq(s, k, k + Len(sep) - 1) = sep
         THEN <<SubSeq(s, start, k - 1)>>
              \o SplitFrom(s, sep, k + Len(sep), k + Len(sep))
         ELSE SplitFrom(s, sep, start, k + 1)

Split(s, sep) == SplitFrom(s, sep, 1, 1)

\* int(s) succeeds on a non-empty run of digits (the only numerals that the
\* alphabets used here can spell).
IsInt(s) == Len(s) > 0 /\ \A k \in 1..Len(s) : IsDigit(s[k])

RECURSIVE IntOf(_)
IntOf(s) ==
    IF Len(s) = 0 THEN 0
    ELSE 10 * IntOf(SubSeq(s, 1, Len(s) - 1)) + DigitValue(s[Len(s)])

\* str(n) for a natural number.
RECURSIVE StrOfNat(_)
StrOfNat(n) ==
    IF n < 10 THEN <<DigitChars[n + 1]>>
    ELSE StrOfNat(n \div 10) \o <<DigitChars[(n % 10) + 1]>>

\* str(n).zfill(2)
ZFill2(s) == IF Len(s) < 2 THEN <<"0">> \o s ELSE s

\* str(x) as an f-string renders it: None prints as the text None.
Str(x) == IF x = None THEN <<"N", "o", "n", "e">> ELSE x

-----------------------------------------------------------------------------
(* transxchange.py: parse_runtime_duration *)

HOUR_IN_SECONDS == 60 * 60
MINUTE_IN_SECONDS == 60

Ok(v) == [kind |-> "ok", value |-> v]
NotComputed == [kind |-> "unset", value |-> 0]
Raise(e) == [kind |-> e, value |-> 0]

\* The seconds segment: `if 'S' in runtime: time += int(split[0]) * MINUTE_IN_SECONDS`
SecondsStep(time, rt) ==
    IF Contains(rt, <<"S">>)
    THEN IF IsInt(Split(rt, <<"S">>)[1])
         THEN Ok(time + IntOf(Split(rt, <<"S">>)[1]) * MINUTE_IN_SECONDS)
         ELSE Raise("ValueError")
    ELSE Ok(time)

\* The minutes segment, then the seconds segment on what follows the M.
MinutesStep(time, rt) ==
    IF Contains(rt, <<"M">>)
    THEN IF IsInt(Split(rt, <<"M">>)[1])
         THEN SecondsStep(time + IntOf(Split(rt, <<"M">>)[1]) * MINUTE_IN_SECONDS,
                          Split(rt, <<"M">>)[2])
         ELSE Raise("ValueError")
    ELSE SecondsStep(time, rt)

\* The hours segment, then the rest on what follows the H.
HoursStep(time, rt) ==
    IF Contains(rt, <<"H">>)
    THEN IF IsInt(Split(rt, <<"H">>)[1])
         THEN MinutesStep(time + IntOf(Split(rt, <<"H">>)[1]) * HOUR_IN_SECONDS,
                          Split(rt, <<"H">>)[2])
         ELSE Raise("ValueError")
    ELSE MinutesStep(time, rt)

\* runtime.split("PT")[1] raises IndexError when the code holds no "PT".
parse_runtime_duration(rt) ==
    IF Len(Split(rt, <<"P", "T">>)) < 2
    THEN Raise("IndexError")
    ELSE HoursStep(0, Split(rt, <<"P", "T">>)[2])

-----------------------------------------------------------------------------
(* More string built-ins *)

UpperChars == <<"A", "B", "C", "D", "E", "F", "G", "H", "I", "J", "K", "L", "M", "N", "O", "P", "Q", "R", "S", "T", "U", "V", "W", "X", "Y", "Z">>

LowerChars == <<"a", "b", "c", "d", "e", "f", "g", "h", "i", "j", "k", "l", "m", "n", "o", "p", "q", "r", "s", "t", "u", "v", "w", "x", "y", "z">>

LowerChar(c) ==
    IF \E k \in 1..Len(UpperChars) : UpperChars[k] = c
    THEN LowerChars[CHOOSE k \in 1..Len(UpperChars) : UpperChars[k] = c]
    ELSE c

\* s.lower()
Lower(s) == [k \in 1..Len(s) |-> LowerChar(s[k])]

\* s.strip(): blanks removed at both ends.
RECURSIVE Strip(_)
Strip(s) ==
    IF Len(s) > 0 /\ s[1] = " " THEN Strip(Tail(s))
    ELSE IF Len(s) > 0 /\ s[Len(s)] = " " THEN Strip(SubSeq(s, 1, Len(s) - 1))
    ELSE s

\* sep.join(parts)
RECURSIVE Join(_, _)
Join(sep, parts) ==
    IF Len(parts) = 0 THEN <<>>
    ELSE IF Len(parts) = 1 THEN parts[1]
    ELSE parts[1] \o sep \o Join(sep, Tail(parts))

-----------------------------------------------------------------------------
(* calendar.py: parse_day_range *)

monday == <<"m", "o", "n", "d", "a", "y">>
tuesday == <<"t", "u", "e", "s", "d", "a", "y">>
wednesday == <<"w", "e", "d", "n", "e", "s", "d", "a", "y">>
thursday == <<"t", "h", "u", "r", "s", "d", "a", "y">>
friday == <<"f", "r", "i", "d", "a", "y">>
saturday == <<"s", "a", "t", "u", "r", "d", "a", "y">>
sunday == <<"s", "u", "n", "d", "a", "y">>

\* num_to_weekday: day number n (0..6) is num_to_weekday[n + 1].
num_to_weekday == <<monday, tuesday, wednesday, thursday, friday, saturday, sunday>>

\* weekday_to_num: a name that is no key raises KeyError.
IsWeekdayKey(name) == \E n \in 0..6 : num_to_weekday[n + 1] = name

weekday_to_num(name) == CHOOSE n \in 0..6 : num_to_weekday[n + 1] = name

\* The calendar row: one 0/1 flag per day column.
DayRow(active_days) ==
    [monday    |-> IF 0 \in active_days THEN 1 ELSE 0,
     tuesday   |-> IF 1 \in active_days THEN 1 ELSE 0,
     wednesday |-> IF 2 \in active_days THEN 1 ELSE 0,
     thursday  |-> IF 3 \in active_days THEN 1 ELSE 0,
     friday    |-> IF 4 \in active_days THEN 1 ELSE 0,
     saturday  |-> IF 5 \in active_days THEN 1 ELSE 0,
     sunday    |-> IF 6 \in active_days THEN 1 ELSE 0]

\* (A range that leaves out its last day.)
RangeDaysExclusive(start_i, end_i) == start_i..(end_i - 1)

\* range(start_i, end_i + 1)
RangeDays(start_i, end_i) == start_i..end_i

\* The 'DayAToDayB' branch.
RangeBranch(s) ==
    LET day_range == Split(s, <<"T", "o">>) IN
    IF ~IsWeekdayKey(Lower(day_range[1])) THEN Raise("KeyError")
    ELSE IF ~IsWeekdayKey(Lower(day_range[2])) THEN Raise("KeyError")
    ELSE Ok(DayRow(RangeDays(weekday_to_num(Lower(day_range[1])),
                             weekday_to_num(Lower(day_range[2])))))

\* The pipe-delimited branch.
ListBranch(s) ==
    LET parts == Split(s, <<"|">>) IN
    IF \E k \in 1..Len(parts) : ~IsWeekdayKey(Lower(parts[k]))
    THEN Raise("KeyError")
    ELSE Ok(DayRow({weekday_to_num(Lower(parts[k])) : k \in 1..Len(parts)}))

parse_day_range(s) ==
    IF s = None THEN Ok(DayRow({}))
    ELSE IF Contains(Lower(Strip(s)), <<"w", "e", "e", "k", "e", "n", "d">>)
         THEN Ok(DayRow({5, 6}))
    ELSE IF Contains(s, <<"T", "o">>) THEN RangeBranch(s)
    ELSE IF Contains(s, <<"|">>) THEN ListBranch(s)
    ELSE IF ~IsWeekdayKey(Lower(s)) THEN Raise("KeyError")
    ELSE Ok(DayRow({weekday_to_num(Lower(s))}))

-----------------------------------------------------------------------------
(* calendar.py / calendar_dates.py: the element-name readers *)

\* weekdays[0] if len(weekdays) == 1 else "|".join(weekdays); an element
\* without the profile (None here) raises inside the try and yields None.
JoinElementNames(elems) ==
    IF elems = Absent THEN None
    ELSE IF Len(elems) = 1 THEN elems[1]
    ELSE Join(<<"|">>, elems)

get_weekday_info(journey) == JoinElementNames(journey.DaysOfWeek)

get_calendar_dates_exceptions(journey) == JoinElementNames(journey.DaysOfNonOperation)

\* data.TransXChange.Services.Service is one element when the document has
\* one service and a list otherwise; a list has no OperatingProfile, so the
\* attribute access raises and the function returns None.
get_service_operative_days_info(services) ==
    IF Len(services) = 1 THEN JoinElementNames(services[1].DaysOfWeek) ELSE None

get_service_calendar_dates_exceptions(services) ==
    IF Len(services) = 1 THEN JoinElementNames(services[1].DaysOfNonOperation) ELSE None

-----------------------------------------------------------------------------
(* transxchange.py: clock arithmetic.  A datetime is the number of seconds  *)
(* since 00:00:00 of current_date.                                          *)

DAY_IN_SECONDS == 24 * 60 * 60

\* datetime.combine(current_date, time(hour, minute))
CombineTime(hour, minute) == hour * HOUR_IN_SECONDS + minute * MINUTE_IN_SECONDS

\* dt.hour
HourOf(dt) == (dt \div HOUR_IN_SECONDS) % 24

\* dt.strftime("%M:%S")
MinSecs(dt) ==
    ZFill2(StrOfNat((dt \div 60) % 60)) \o <<":">> \o ZFill2(StrOfNat(dt % 60))

\* datetime.combine(current_date, time(23, 59, 59))
last_second_of_day == 23 * HOUR_IN_SECONDS + 59 * MINUTE_IN_SECONDS + 59

\* int(((dt - last_second_of_day) / 60 / 60).seconds): the seconds field of
\* the timedelta (dt - last_second_of_day) / 3600, whole days left out.
TimedeltaSeconds(delta) == (delta \div (60 * 60)) % DAY_IN_SECONDS

\* The guard of get_midnight_formatted_times.
PassedMidnight(arrival_hour, hour) == arrival_hour < hour

\* Returns <<arrival_hour, departure_hour>>.
get_midnight_formatted_times(arrival_hour, departure_hour, hour, current_dt, departure_dt) ==
    IF PassedMidnight(arrival_hour, hour)
    THEN <<23 + (TimedeltaSeconds(current_dt - last_second_of_day) + 1),
           23 + (TimedeltaSeconds(departure_dt - last_second_of_day) + 1)>>
    ELSE <<arrival_hour, departure_hour>>

\* f"{str(hour).zfill(2)}:{dt.strftime('%M:%S')}"
FormatTime(hour_field, dt) == ZFill2(StrOfNat(hour_field)) \o <<":">> \o MinSecs(dt)

\* The boarding (dwell) time of process_vehicle_journeys.
boarding_time == 0

-----------------------------------------------------------------------------
(* transxchange.py: process_vehicle_journeys, one vehicle journey *)

\* current_dt = None before the first timing link of a journey.
NoDatetime == -1

\* One record of the table.  The columns agency_id, line_name, travel_mode,
\* vehicle_type and route_link_ref are copied through unread and are left out.
\* arrival_dt and departure_dt are history fields (no column of the table):
\* the datetimes the two clock strings were formatted from.
StopTimeRow(ctx, trip_id, stop_id, stop_num, timepoint, current_dt, departure_dt, hours, nod) ==
    [stop_id            |-> stop_id,
     stop_sequence      |-> stop_num,
     timepoint          |-> timepoint,
     arrival_time       |-> FormatTime(hours[1], current_dt),
     departure_time     |-> FormatTime(hours[2], departure_dt),
     trip_id            |-> trip_id,
     route_id           |-> ctx.route_id,
     vehicle_journey_id |-> ctx.vehicle_journey_id,
     service_ref        |-> ctx.service_ref,
     direction_id       |-> ctx.direction_id,
     trip_headsign      |-> ctx.trip_headsign,
     start_date         |-> ctx.start_date,
     end_date           |-> ctx.end_date,
     weekdays           |-> ctx.weekdays,
     non_operative_days |-> nod,
     service_id         |-> None,
     arrival_dt         |-> current_dt,
     departure_dt       |-> departure_dt]

\* The record of the last stop of a section: the link's To stop, one more
\* `duration` after current_dt.  The caller's current_dt is not advanced, and
\* the record has no non_operative_days value.
get_last_stop_time_info(ctx, trip_id, link, current_dt, duration, stop_num) ==
    LET arrival_dt   == current_dt + duration
        departure_dt == arrival_dt + boarding_time
        hours == get_midnight_formatted_times(HourOf(arrival_dt), HourOf(departure_dt),
                                              ctx.hour, arrival_dt, departure_dt)
    IN StopTimeRow(ctx, trip_id, link.To, stop_num, 0, arrival_dt, departure_dt, hours, None)

\* How far the clock moves before the record of a link's From stop is emitted.
LinkAdvance(duration) == duration

\* The body of `for link in timing_links` for one link.  w is the loop state:
\* current_dt, stop_num, section_times, the duration parsed last, err.
WalkLink(w, link, ctx, trip_id) ==
    LET parsed == parse_runtime_duration(link.RunTime) IN
    IF parsed.kind # "ok" THEN [w EXCEPT !.err = <<parsed.kind>>]
    ELSE
    LET duration     == parsed.value
        first        == w.current_dt = NoDatetime
        current_dt   == IF first THEN CombineTime(ctx.hour, ctx.minute)
                        ELSE w.current_dt + LinkAdvance(duration)
        departure_dt == IF first THEN current_dt ELSE current_dt + boarding_time
        timepoint    == IF first THEN 1 ELSE 0
        hours == get_midnight_formatted_times(HourOf(current_dt), HourOf(departure_dt),
                                              ctx.hour, current_dt, departure_dt)
    IN [w EXCEPT !.current_dt = current_dt,
                 !.duration = duration,
                 !.section_times = Append(@, StopTimeRow(ctx, trip_id, link.From, w.stop_num,
                                                         timepoint, current_dt, departure_dt,
                                                         hours, ctx.non_operative_days)),
                 !.stop_num = @ + 1]

\* (Loop states are bound through singleton sets, so that each is computed
\* once.)
RECURSIVE WalkLinks(_, _, _, _, _)
WalkLinks(w, links, k, ctx, trip_id) ==
    IF k > Len(links) \/ w.err # None THEN w
    ELSE CHOOSE r \in {WalkLinks(w1, links, k + 1, ctx, trip_id) :
                          w1 \in {WalkLink(w, links[k], ctx, trip_id)}} : TRUE

\* f"{section_id}_{weekdays}_{str(hour).zfill(2)}{str(minute).zfill(2)}"
TripId(section_id, weekdays, hour, minute) ==
    section_id \o <<"_">> \o Str(weekdays) \o <<"_">>
        \o ZFill2(StrOfNat(hour)) \o ZFill2(StrOfNat(minute))

\* section_times = pd.DataFrame() at the start of a matched section.
SectionStart(w) == [w EXCEPT !.section_times = <<>>]

\* The body of `for section in sections` for one section.
WalkSection(w, section, ctx, jp_section_references) ==
    LET trip_id == TripId(section.id, ctx.weekdays, ctx.hour, ctx.minute) IN
    IF ~(\E k \in 1..Len(jp_section_references) : jp_section_references[k] = section.id)
    THEN w
    ELSE CHOOSE r \in
        {IF w1.err # None THEN w1
         ELSE [w1 EXCEPT !.section_times =
                   Append(@, get_last_stop_time_info(ctx, trip_id,
                                                     section.links[Len(section.links)],
                                                     w1.current_dt, w1.duration, w1.stop_num))] :
            w1 \in {WalkLinks(SectionStart(w), section.links, 1, ctx, trip_id)}} : TRUE

\* The sections are walked in the order of the document.
RECURSIVE WalkSections(_, _, _, _, _)
WalkSections(w, sections, k, ctx, jp_section_references) ==
    IF k > Len(sections) \/ w.err # None THEN w
    ELSE CHOOSE r \in {WalkSections(w1, sections, k + 1, ctx, jp_section_references) :
                          w1 \in {WalkSection(w, sections[k], ctx, jp_section_references)}} : TRUE

\* service_jp_info.loc[service_jp_info['journey_pattern_id'] == journey_pattern_id]
PatternRows(service_jp_info, journey_pattern_id) ==
    LET Match(r) == r.journey_pattern_id = journey_pattern_id
    IN SelectSeq(service_jp_info, Match)

\* if weekdays is None: weekdays = service_operative_days
EffectiveValue(own, service_default) == IF own = None THEN service_default ELSE own

\* The per-journey values read before the section loop.
JourneyContext(d, journey, patterns) ==
    LET hms == Split(journey.DepartureTime, <<":">>) IN
    [vehicle_journey_id |-> journey.VehicleJourneyCode,
     service_ref        |-> journey.ServiceRef,
     weekdays           |-> EffectiveValue(get_weekday_info(journey),
                                           get_service_operative_days_info(d.services)),
     non_operative_days |-> EffectiveValue(get_calendar_dates_exceptions(journey),
                                           get_service_calendar_dates_exceptions(d.services)),
     route_id           |-> patterns[1].route_id,
     direction_id       |-> patterns[1].direction_id,
     trip_headsign      |-> patterns[1].trip_headsign,
     start_date         |-> patterns[1].start_date,
     end_date           |-> patterns[1].end_date,
     hour               |-> IntOf(hms[1]),
     minute             |-> IntOf(hms[2]),
     second             |-> IntOf(hms[3])]

\* One iteration of `for i, journey in enumerate(vjourneys)`: the loop state
\* after the section loop.  prev_section_times is what the name section_times
\* is bound to when the iteration starts (Unbound: not bound yet).
WalkJourney(d, journey, prev_section_times) ==
    LET patterns == PatternRows(d.service_jp_info, journey.JourneyPatternRef)
        w0 == [current_dt |-> NoDatetime, stop_num |-> 1, duration |-> 0,
               section_times |-> prev_section_times, err |-> None]
    IN IF Len(patterns) = 0
       THEN [w0 EXCEPT !.err = <<"IndexError">>]
       ELSE LET refs == [k \in 1..Len(patterns) |-> patterns[k].jp_section_reference]
            IN CHOOSE r \in
                 {IF w.err = None /\ w.section_times = Unbound
                  THEN [w EXCEPT !.err = <<"NameError">>]
                  ELSE w :
                     w \in {WalkSections(w0, d.sections, 1, ctx, refs) :
                               ctx \in {JourneyContext(d, journey, patterns)}}} : TRUE

-----------------------------------------------------------------------------
(* stop_times.py: generate_service_id *)

\* The records of table at the indices where keep is TRUE, in table order.
RECURSIVE PickRows(_, _, _)
PickRows(table, keep, k) ==
    IF k > Len(table) THEN <<>>
    ELSE (IF keep[k] THEN <<table[k]>> ELSE <<>>) \o PickRows(table, keep, k + 1)

\* drop_duplicates(subset=[key]) keeps the first record of every key value.
FirstIndexOf(keys, k) ==
    \A j \in 1..(k - 1) : keys[j] # keys[k]

\* calendar_info = stop_times.drop_duplicates(subset=['vehicle_journey_id'])
CalendarInfo(table) ==
    LET keys == [k \in 1..Len(table) |-> table[k].vehicle_journey_id]
    IN PickRows(table, [k \in 1..Len(table) |-> FirstIndexOf(keys, k)], 1)

\* The key calendar_info is grouped by: groupby('weekdays').
GroupKey(r) == r.weekdays

\* The records of one group, in table order; groupby leaves out the records
\* whose key is null.
CalendarGroup(calendar_info, key) ==
    LET InGroup(r) == GroupKey(r) # None /\ GroupKey(r) = key
    IN SelectSeq(calendar_info, InGroup)

\* f"{service_ref}_{start_d}_{end_d}_{daygroup}" from the first record of the group.
GroupServiceId(cgroup) ==
    cgroup[1].service_ref \o <<"_">> \o cgroup[1].start_date \o <<"_">>
        \o cgroup[1].end_date \o <<"_">> \o cgroup[1].weekdays

\* The service_id a record ends with: that of the group holding its vehicle
\* journey, None when no group holds it.
AssignedServiceId(calendar_info, r) ==
    LET groups == {CalendarGroup(calendar_info, GroupKey(c)) :
                       c \in {calendar_info[k] : k \in 1..Len(calendar_info)}}
        mine == {g \in groups : \E k \in 1..Len(g) :
                                   g[k].vehicle_journey_id = r.vehicle_journey_id}
    IN IF mine = {} THEN None ELSE GroupServiceId(CHOOSE g \in mine : TRUE)

\* A table without records has the service_id column only: drop_duplicates
\* returns a copy of an empty table without looking at subset, the weekdays
\* column is missing and the branch of lines 59-69 returns the table as it
\* is.  A table built by process_vehicle_journeys with at least one record
\* has the weekdays column, so that branch is not taken for it.
generate_service_id(table) ==
    IF Len(table) = 0 THEN Ok(<<>>)
    ELSE Ok([k \in 1..Len(table) |->
               [table[k] EXCEPT !.service_id = AssignedServiceId(CalendarInfo(table), table[k])]])

-----------------------------------------------------------------------------
(* stop_times.py: get_stop_times;  trips.py: get_trips *)

\* Characters in code-point order, for the sorted group keys of groupby.
CharOrder == DigitChars \o <<":">> \o UpperChars \o <<"_">> \o LowerChars \o <<"|">>

CharCode(c) == CHOOSE k \in 1..Len(CharOrder) : CharOrder[k] = c

RECURSIVE StrLess(_, _)
StrLess(a, b) ==
    IF Len(b) = 0 THEN FALSE
    ELSE IF Len(a) = 0 THEN TRUE
    ELSE IF a[1] = b[1] THEN StrLess(Tail(a), Tail(b))
    ELSE CharCode(a[1]) < CharCode(b[1])

RECURSIVE SortedKeys(_)
SortedKeys(keys) ==
    IF keys = {} THEN <<>>
    ELSE LET least == CHOOSE a \in keys : \A b \in keys \ {a} : StrLess(a, b)
         IN <<least>> \o SortedKeys(keys \ {least})

stop_times_cols ==
    <<"trip_id", "arrival_time", "departure_time", "stop_id", "stop_sequence", "timepoint">>

\* gtfs_info[stop_times_cols]
StopTimesColumns(r) ==
    [trip_id |-> r.trip_id, arrival_time |-> r.arrival_time,
     departure_time |-> r.departure_time, stop_id |-> r.stop_id,
     stop_sequence |-> r.stop_sequence, timepoint |-> r.timepoint]

\* drop_duplicates(): the first of equal records.
DropDuplicates(table) ==
    PickRows(table, [k \in 1..Len(table) |-> FirstIndexOf(table, k)], 1)

\* `if len(group) > 1`
KeepGroup(group) == Len(group) > 1

RECURSIVE ConcatGroups(_, _)
ConcatGroups(table, keys) ==
    IF Len(keys) = 0 THEN <<>>
    ELSE LET InGroup(r) == r.trip_id = keys[1]
             group == SelectSeq(table, InGroup)
         IN (IF KeepGroup(group) THEN group ELSE <<>>) \o ConcatGroups(table, Tail(keys))

\* A table is [columns, rows]; a table without records built by
\* pd.DataFrame() has no columns.
get_stop_times(table) ==
    IF Len(table) = 0 THEN [columns |-> stop_times_cols, rows |-> <<>>]
    ELSE LET projected == DropDuplicates([k \in 1..Len(table) |-> StopTimesColumns(table[k])])
             keys == SortedKeys({projected[k].trip_id : k \in 1..Len(projected)})
             filtered == ConcatGroups(projected, keys)
         IN [columns |-> IF Len(filtered) = 0 THEN <<>> ELSE stop_times_cols,
             rows |-> filtered]

trip_cols == <<"route_id", "service_id", "trip_id", "trip_headsign", "direction_id">>

TripColumns(r) ==
    [route_id |-> r.route_id, service_id |-> r.service_id, trip_id |-> r.trip_id,
     trip_headsign |-> r.trip_headsign, direction_id |-> r.direction_id]

\* The records get_trips keeps:
\* gtfs_info.drop_duplicates(subset=['route_id', 'service_id', 'trip_id'])
TripRecords(table) ==
    LET keys == [k \in 1..Len(table) |->
                    <<table[k].route_id, table[k].service_id, table[k].trip_id>>]
    IN PickRows(table, [k \in 1..Len(table) |-> FirstIndexOf(keys, k)], 1)

get_trips(table) ==
    IF Len(table) = 0 THEN [columns |-> trip_cols, rows |-> <<>>]
    ELSE [columns |-> trip_cols,
          rows |-> [k \in 1..Len(TripRecords(table)) |-> TripColumns(TripRecords(table)[k])]]

-----------------------------------------------------------------------------
(* calendar.py: get_calendar *)

use_cols == <<"service_id", "weekdays", "start_date", "end_date">>

final_cols ==
    <<"service_id", "monday", "tuesday", "wednesday", "thursday", "friday",
      "saturday", "sunday", "start_date", "end_date">>

\* calendar = gtfs_info.drop_duplicates(subset=use_cols)
CalendarRecords(table) ==
    LET keys == [k \in 1..Len(table) |->
                    <<table[k].service_id, table[k].weekdays,
                      table[k].start_date, table[k].end_date>>]
    IN PickRows(table, [k \in 1..Len(table) |-> FirstIndexOf(keys, k)], 1)

\* dayrow with service_id, start_date and end_date added, in col_order.
CalendarRow(row, dayrow) ==
    [service_id |-> row.service_id,
     monday |-> dayrow.monday, tuesday |-> dayrow.tuesday,
     wednesday |-> dayrow.wednesday, thursday |-> dayrow.thursday,
     friday |-> dayrow.friday, saturday |-> dayrow.saturday,
     sunday |-> dayrow.sunday,
     start_date |-> row.start_date, end_date |-> row.end_date]

\* A table without records has none of use_cols: the empty table with
\* final_cols is returned.  An exception of parse_day_range leaves the loop.
get_calendar(table) ==
    IF Len(table) = 0 THEN Ok([columns |-> final_cols, rows |-> <<>>])
    ELSE LET cal == CalendarRecords(table)
             dayrows == [k \in 1..Len(cal) |-> parse_day_range(cal[k].weekdays)]
         IN IF \E k \in 1..Len(cal) : dayrows[k].kind # "ok"
            THEN Raise(dayrows[CHOOSE k \in 1..Len(cal) :
                                  /\ dayrows[k].kind # "ok"
                                  /\ \A j \in 1..(k - 1) : dayrows[j].kind = "ok"].kind)
            ELSE Ok([columns |-> final_cols,
                     rows |-> [k \in 1..Len(cal) |-> CalendarRow(cal[k], dayrows[k].value)]])

-----------------------------------------------------------------------------
(* calendar_dates.py: get_calendar_dates *)

\* The keys of known_holidays.
known_holidays ==
    {<<"S", "p", "r", "i", "n", "g", "B", "a", "n", "k">>,
     <<"L", "a", "t", "e", "S", "u", "m", "m", "e", "r", "B", "a", "n", "k", "H", "o", "l", "i", "d", "a", "y", "N", "o", "t", "S", "c", "o", "t", "l", "a", "n", "d">>,
     <<"M", "a", "y", "D", "a", "y">>,
     <<"G", "o", "o", "d", "F", "r", "i", "d", "a", "y">>,
     <<"E", "a", "s", "t", "e", "r", "M", "o", "n", "d", "a", "y">>,
     <<"B", "o", "x", "i", "n", "g", "D", "a", "y">>,
     <<"B", "o", "x", "i", "n", "g", "D", "a", "y", "H", "o", "l", "i", "d", "a", "y">>,
     <<"C", "h", "r", "i", "s", "t", "m", "a", "s", "D", "a", "y">>,
     <<"C", "h", "r", "i", "s", "t", "m", "a", "s", "D", "a", "y", "H", "o", "l", "i", "d", "a", "y">>,
     <<"C", "h", "r", "i", "s", "t", "m", "a", "s", "E", "v", "e">>,
     <<"N", "e", "w", "Y", "e", "a", "r", "s", "D", "a", "y">>,
     <<"N", "e", "w", "Y", "e", "a", "r", "s", "D", "a", "y", "H", "o", "l", "i", "d", "a", "y">>,
     <<"N", "e", "w", "Y", "e", "a", "r", "s", "E", "v", "e">>}

AllBankHolidays == <<"A", "l", "l", "B", "a", "n", "k", "H", "o", "l", "i", "d", "a", "y", "s">>

\* gtfs_info.dropna(subset=["non_operative_days"])
DropNa(table) ==
    LET HasValue(r) == r.non_operative_days # None
    IN SelectSeq(table, HasValue)

\* list(gtfs_info["non_operative_days"].unique()): the values in order of
\* first appearance.
UniqueValues(table) ==
    LET keys == [k \in 1..Len(table) |-> table[k].non_operative_days]
        firsts == PickRows(table, [k \in 1..Len(table) |-> FirstIndexOf(keys, k)], 1)
    IN [k \in 1..Len(firsts) |-> firsts[k].non_operative_days]

\* The identifiers one value stands for: the parts of a pipe-delimited
\* value, the value itself when it is not empty.
IdentifiersOf(info) ==
    IF Contains(info, <<"|">>)
    THEN LET parts == Split(info, <<"|">>) IN {parts[k] : k \in 1..Len(parts)}
    ELSE IF info # <<>> THEN {info} ELSE {}

\* non_operatives = list(set(non_operatives))
NonOperatives(values) == UNION {IdentifiersOf(values[k]) : k \in 1..Len(values)}

\* The holidays a warning is given for ("Did not recognize following holiday").
UnknownHolidays(non_operatives) ==
    {holiday \in non_operatives :
        holiday \notin known_holidays /\ holiday # AllBankHolidays}

\* The None get_bank_holiday_dates returns, kept apart from every list of
\* dates.
NoDates == <<None>>

\* The holiday-date provider: the dates of the provider's holiday list that
\* lie within the operative window of the table, from its first start_date
\* to its last end_date, in order.  No date in the window is handed over as
\* None, the value get_calendar_dates tests for.
get_bank_holiday_dates(holidays, table) ==
    LET first_day == CHOOSE d \in {IntOf(table[k].start_date) : k \in 1..Len(table)} :
                         \A k \in 1..Len(table) : d <= IntOf(table[k].start_date)
        last_day  == CHOOSE d \in {IntOf(table[k].end_date) : k \in 1..Len(table)} :
                         \A k \in 1..Len(table) : d >= IntOf(table[k].end_date)
        InWindow(date) == first_day <= IntOf(date) /\ IntOf(date) <= last_day
        dates == SelectSeq(holidays, InWindow)
    IN IF Len(dates) = 0 THEN NoDates ELSE dates

\* (Every record kept: the duplicates of a service are not dropped.)
ServiceRecordsKeepAll(table) == table

\* calendar_info.drop_duplicates(subset=["service_id"])
ServiceRecords(table) ==
    LET keys == [k \in 1..Len(table) |-> table[k].service_id]
    IN PickRows(table, [k \in 1..Len(table) |-> FirstIndexOf(keys, k)], 1)

\* The fixed exception type of a record: the service is removed on the date.
exception_type == 2

\* One record per service record and date, services outermost.
RECURSIVE ExceptionRows(_, _)
ExceptionRows(calendar_info, dates) ==
    IF Len(calendar_info) = 0 THEN <<>>
    ELSE [k \in 1..Len(dates) |->
             [service_id |-> calendar_info[1].service_id, date |-> dates[k],
              exception_type |-> exception_type]]
         \o ExceptionRows(Tail(calendar_info), dates)

\* What get_calendar_dates returns: None or a table; queried tells whether
\* the provider was called, warned for which identifiers a warning was given.
DatesResult(returned, rows, queried, warned) ==
    [kind |-> "ok",
     value |-> [returned |-> returned, rows |-> rows, queried |-> queried, warned |-> warned]]

\* holidays is the holiday list the provider works from.  A table without
\* records has no column non_operative_days.
get_calendar_dates(table, holidays) ==
    IF Len(table) = 0 THEN DatesResult("None", <<>>, FALSE, {})
    ELSE
    LET kept == DropNa(table)
        non_operatives == NonOperatives(UniqueValues(kept))
        warned == UnknownHolidays(non_operatives)
    IN IF non_operatives = {} THEN DatesResult("None", <<>>, FALSE, warned)
       ELSE LET dates == get_bank_holiday_dates(holidays, kept) IN
            IF dates = NoDates THEN DatesResult("None", <<>>, TRUE, warned)
            ELSE DatesResult("table", ExceptionRows(ServiceRecords(kept), dates),
                             TRUE, warned)

-----------------------------------------------------------------------------
(* stops.py: _get_tfl_style_stops, _get_txc_21_style_stops *)

\* The columns of the table read_naptan_stops returns.
required_cols == <<"stop_id", "stop_lon", "stop_lat", "stop_name">>

\* The columns of the record built from the document's own location.
location_cols ==
    <<"stop_id", "stop_code", "stop_name", "stop_lat", "stop_lon", "stop_url">>

\* A coordinate held as a float.
Float(v) == <<"float", v>>

\* float(text): ValueError unless the text is a number; a location element
\* that is missing raises AttributeError before.  Both are caught by
\* `except Exception`.
CanFloat(text) == text # None /\ IsInt(text)

\* pyproj.transform(osgb36, wgs84, x, y): the longitude and latitude of the
\* OSGB36 point (x, y), kept as terms.
Transform(x, y) == <<<<"wgs84_lon", x, y>>, <<"wgs84_lat", x, y>>>>

\* detected_epsg = 7405 if x > 180 else 4326
detected_epsg(x) == IF x > 180 THEN 7405 ELSE 4326

\* The record of a stop point that NaPTAN does not hold, from its Easting
\* and Northing.
LocationRecord(p) ==
    LET x == IntOf(p.Easting)
        y == IntOf(p.Northing)
        xy == IF detected_epsg(x) = 7405 THEN Transform(x, y) ELSE <<Float(x), Float(y)>>
    IN [stop_id |-> p.AtcoCode, stop_code |-> None, stop_name |-> p.CommonName,
        stop_lat |-> xy[2], stop_lon |-> xy[1], stop_url |-> None]

\* A row of naptan_stops as a row of stop_data: the columns it does not have
\* hold no value after pd.concat.
NaptanRecord(row) ==
    [stop_id |-> row.stop_id, stop_code |-> None, stop_name |-> row.stop_name,
     stop_lat |-> row.stop_lat, stop_lon |-> row.stop_lon, stop_url |-> None]

\* naptan_stops.loc[naptan_stops[_stop_id_col] == stop_id]
NaptanRows(naptan, stop_id) ==
    LET Match(row) == row.stop_id = stop_id
    IN SelectSeq(naptan, Match)

\* pd.concat([stop_data, stop]): the columns of stop_data, then those of
\* stop that it does not have yet.
ConcatColumns(columns, more) ==
    LET New(c) == \A k \in 1..Len(columns) : columns[k] # c
    IN columns \o SelectSeq(more, New)

\* The loop of _get_tfl_style_stops from stop point k on; t is stop_data.
RECURSIVE TflStops(_, _, _, _)
TflStops(t, points, k, naptan) ==
    IF k > Len(points) THEN Ok(t)
    ELSE LET p == points[k]
             stop == NaptanRows(naptan, p.AtcoCode)
         IN IF Len(stop) = 0
            THEN IF CanFloat(p.Easting) /\ CanFloat(p.Northing)
                 THEN TflStops([columns |-> ConcatColumns(t.columns, location_cols),
                                rows |-> Append(t.rows, LocationRecord(p))],
                               points, k + 1, naptan)
                 ELSE TflStops(t, points, k + 1, naptan)
            ELSE IF Len(stop) > 1 THEN Raise("ValueError")
            ELSE TflStops([columns |-> ConcatColumns(t.columns, required_cols),
                           rows |-> Append(t.rows, NaptanRecord(stop[1]))],
                          points, k + 1, naptan)

_get_tfl_style_stops(points, naptan) ==
    TflStops([columns |-> <<>>, rows |-> <<>>], points, 1, naptan)

\* The loop of _get_txc_21_style_stops from stop point k on.
RECURSIVE Txc21Stops(_, _, _, _)
Txc21Stops(t, points, k, naptan) ==
    IF k > Len(points) THEN Ok(t)
    ELSE LET stop == NaptanRows(naptan, points[k].StopPointRef)
         IN IF Len(stop) = 0 THEN Txc21Stops(t, points, k + 1, naptan)
            ELSE IF Len(stop) > 1 THEN Raise("ValueError")
            ELSE Txc21Stops([columns |-> ConcatColumns(t.columns, required_cols),
                             rows |-> Append(t.rows, NaptanRecord(stop[1]))],
                            points, k + 1, naptan)

_get_txc_21_style_stops(points, naptan) ==
    Txc21Stops([columns |-> <<>>, rows |-> <<>>], points, 1, naptan)

-----------------------------------------------------------------------------
(* Inputs *)

\* Bounds of the input sets.
MaxCodeLen == 4
MaxNum == 12
MaxJourneys == 2
MaxRows == 3
MaxStops == 2

\* Duration codes: every text over ProbeChars up to MaxCodeLen characters,
\* and every well-formed code with numerals up to MaxNum.
ProbeChars == {"P", "T", "H", "M", "S", "1", "5"}

ProbeCodes == UNION {[1..n -> ProbeChars] : n \in 0..MaxCodeLen}

Segment(n, unit) == IF n < 0 THEN <<>> ELSE StrOfNat(n) \o <<unit>>

\* "PT" and the segments present (a negative number: the segment is absent).
DurationCode(h, m, sec) ==
    <<"P", "T">> \o Segment(h, "H") \o Segment(m, "M") \o Segment(sec, "S")

WellFormedCodes ==
    {DurationCode(h, m, sec) : h \in -1..MaxNum, m \in -1..MaxNum, sec \in -1..MaxNum}
        \ {DurationCode(-1, -1, -1)}

\* Weekly-pattern texts: element names of DaysOfWeek and their lower-case forms.
Weekend == <<"W", "e", "e", "k", "e", "n", "d">>
DayNames == <<<<"M", "o", "n", "d", "a", "y">>, <<"T", "u", "e", "s", "d", "a", "y">>, <<"W", "e", "d", "n", "e", "s", "d", "a", "y">>, <<"T", "h", "u", "r", "s", "d", "a", "y">>, <<"F", "r", "i", "d", "a", "y">>, <<"S", "a", "t", "u", "r", "d", "a", "y">>, <<"S", "u", "n", "d", "a", "y">>>>

\* 'DayAToDayB' for day numbers a, b (0..6).
RangeTextOf(names, a, b) == names[a + 1] \o <<"T", "o">> \o names[b + 1]

RangeText(a, b) == RangeTextOf(DayNames, a, b)

\* 'DayA|...|DayB': every day from a to b, pipe-delimited.
ListTextOf(names, a, b) == Join(<<"|">>, [k \in 1..(b - a + 1) |-> names[a + k]])

ListText(a, b) == ListTextOf(DayNames, a, b)

\* Both spellings of the day names: capitalised (the element names) and
\* lower case.
Spellings == {DayNames, num_to_weekday}

\* An element name of DaysOfWeek that names no day, range or list.
NotSaturday == <<"N", "o", "t", "S", "a", "t", "u", "r", "d", "a", "y">>

DayTexts ==
    {RangeTextOf(names, a, b) : names \in Spellings, a \in 0..6, b \in 0..6}
        \cup {ListTextOf(names, a, b) : names \in Spellings, a \in 0..6, b \in 0..6}
        \cup {Weekend, Lower(Weekend), NotSaturday,
              RangeText(0, 4) \o <<"|">> \o Weekend,
              RangeText(0, 4) \o <<"|">> \o DayNames[6]}

\* The document: two sections in document order, S1 with two timing links
\* and S2 with one.
SectionsOf(rt1, rt2, rt3) ==
    <<[id |-> <<"S", "1">>,
       links |-> <<[From |-> "A", To |-> "B", RunTime |-> rt1],
                   [From |-> "B", To |-> "C", RunTime |-> rt2]>>],
      [id |-> <<"S", "2">>,
       links |-> <<[From |-> "C", To |-> "D", RunTime |-> rt3]>>]>>

SV1 == <<"S", "V", "1">>
SV2 == <<"S", "V", "2">>

Service(code, days) ==
    [ServiceCode |-> code, DaysOfWeek |-> days, DaysOfNonOperation |-> Absent]

\* One row of the journey-pattern index (get_service_journey_pattern_info).
PatternRow(jp, service_code, section_ref, route, direction, headsign, start_d, end_d) ==
    [journey_pattern_id |-> jp, service_code |-> service_code,
     jp_section_reference |-> section_ref, route_id |-> route,
     direction_id |-> direction, trip_headsign |-> headsign,
     start_date |-> start_d, end_date |-> end_d]

\* JP1 runs over S1, JP3 over S1 then S2 (both of service SV1); JP2 of
\* service SV2 runs over S2.
PatternsOf(code) ==
    IF code = SV1
    THEN <<PatternRow("JP1", SV1, <<"S", "1">>, "R1", 1, "Dest1", <<"2", "0", "2", "4", "0", "1", "0", "1">>, <<"2", "0", "2", "4", "1", "2", "3", "1">>),
           PatternRow("JP3", SV1, <<"S", "1">>, "R1", 1, "Dest1", <<"2", "0", "2", "4", "0", "1", "0", "1">>, <<"2", "0", "2", "4", "1", "2", "3", "1">>),
           PatternRow("JP3", SV1, <<"S", "2">>, "R1", 1, "Dest1", <<"2", "0", "2", "4", "0", "1", "0", "1">>, <<"2", "0", "2", "4", "1", "2", "3", "1">>)>>
    ELSE <<PatternRow("JP2", SV2, <<"S", "2">>, "R2", 0, "Orig2", <<"2", "0", "2", "4", "0", "6", "0", "1">>, <<"2", "0", "9", "9", "1", "2", "3", "1">>)>>

RECURSIVE IndexOf(_)
IndexOf(services) ==
    IF Len(services) = 0 THEN <<>>
    ELSE PatternsOf(services[1].ServiceCode) \o IndexOf(Tail(services))

ServiceOfPattern(jp) == IF jp = "JP2" THEN SV2 ELSE SV1

\* "HH:MM:SS"
DepartureText(h, m, sec) ==
    ZFill2(StrOfNat(h)) \o <<":">> \o ZFill2(StrOfNat(m)) \o <<":">> \o ZFill2(StrOfNat(sec))

VehicleJourney(n, jp, days, dep) ==
    [VehicleJourneyCode |-> <<"V", "J">> \o StrOfNat(n),
     ServiceRef |-> ServiceOfPattern(jp),
     JourneyPatternRef |-> jp,
     DepartureTime |-> dep,
     DaysOfWeek |-> days,
     DaysOfNonOperation |-> Absent]

Document(services, sections, vjourneys) ==
    [services |-> services, sections |-> sections,
     service_jp_info |-> IndexOf(services), vjourneys |-> vjourneys]

\* Documents that vary the calendar data: up to MaxJourneys journeys, each
\* with a pattern and its own DaysOfWeek elements (or none); one service with
\* or without a default profile, or two services.
DayElements ==
    {Absent, <<Weekend>>, <<DayNames[6], DayNames[7]>>, <<RangeText(0, 4)>>,
     <<NotSaturday>>}

JourneyTemplates == {"JP1", "JP2", "JP3"} \X DayElements

ServiceLists ==
    {<<Service(SV1, Absent)>>, <<Service(SV1, <<RangeText(0, 4)>>)>>,
     <<Service(SV1, Absent), Service(SV2, Absent)>>}

CalendarDocs ==
    {Document(services,
              SectionsOf(DurationCode(-1, 5, -1), DurationCode(-1, 10, -1),
                         DurationCode(-1, 5, -1)),
              [n \in 1..Len(ts) |-> VehicleJourney(n, ts[n][1], ts[n][2],
                                                  DepartureText(8, 0, 0))]) :
        services \in ServiceLists,
        ts \in UNION {[1..n -> JourneyTemplates] : n \in 0..MaxJourneys}}

\* Documents that vary the clock: one journey starting at any hour of the
\* day, every timing link with a run time out of ClockRunTimes.
ClockRunTimes ==
    {DurationCode(-1, 55, -1), DurationCode(23, 55, -1),
     DurationCode(-1, -1, 30), DurationCode(1, 5, -1)}

ClockMinutes == {30}

ClockDocs ==
    {Document(<<Service(SV1, Absent), Service(SV2, Absent)>>,
              SectionsOf(rt1, rt2, rt3),
              <<VehicleJourney(1, jp, <<DayNames[1]>>, DepartureText(h, m, 0))>>) :
        rt1 \in ClockRunTimes, rt2 \in ClockRunTimes, rt3 \in ClockRunTimes,
        jp \in {"JP1", "JP2", "JP3"}, h \in 0..23, m \in ClockMinutes}

\* Documents that vary the date exceptions: up to MaxJourneys journeys, each
\* with its own DaysOfNonOperation elements (or none), under two services or
\* under one service with a default profile.
NonOperationElements ==
    {Absent, <<AllBankHolidays>>,
     <<<<"C", "h", "r", "i", "s", "t", "m", "a", "s", "D", "a", "y">>, <<"B", "o", "x", "i", "n", "g", "D", "a", "y">>>>,
     <<<<"N", "o", "t", "A", "H", "o", "l", "i", "d", "a", "y">>>>}

\* A weekend journey of pattern JP1 and a working-day journey of pattern JP2.
HolidayTemplates ==
    {<<"JP1", <<Weekend>>>>, <<"JP2", <<RangeText(0, 4)>>>>} \X NonOperationElements

HolidayServiceLists ==
    {<<Service(SV1, Absent), Service(SV2, Absent)>>,
     <<[Service(SV1, Absent) EXCEPT !.DaysOfNonOperation = <<AllBankHolidays>>]>>}

HolidayDocs ==
    {Document(services,
              SectionsOf(DurationCode(-1, 5, -1), DurationCode(-1, 10, -1),
                         DurationCode(-1, 5, -1)),
              [n \in 1..Len(ts) |->
                  [VehicleJourney(n, ts[n][1][1], ts[n][1][2], DepartureText(8, 0, 0))
                      EXCEPT !.DaysOfNonOperation = ts[n][2]]]) :
        services \in HolidayServiceLists,
        ts \in UNION {[1..n -> HolidayTemplates] : n \in 1..MaxJourneys}}

\* The holiday lists the provider may work from: none at all (the provider
\* is unavailable), or dates of 2024 and 2025.
HolidayLists ==
    {<<>>,
     <<<<"2", "0", "2", "4", "0", "1", "0", "1">>>>,
     <<<<"2", "0", "2", "4", "0", "1", "0", "1">>, <<"2", "0", "2", "4", "0", "5", "2", "7">>>>,
     <<<<"2", "0", "2", "5", "0", "1", "0", "1">>>>}

\* Documents that lack section S2: a journey of pattern JP2 matches no
\* section of the document.
SparseDocs ==
    {Document(<<Service(SV1, Absent), Service(SV2, Absent)>>,
              SubSeq(SectionsOf(DurationCode(-1, 5, -1), DurationCode(-1, 10, -1),
                                DurationCode(-1, 5, -1)), 1, 1),
              [n \in 1..Len(jps) |-> VehicleJourney(n, jps[n], <<Weekend>>,
                                                   DepartureText(8, 0, 0))]) :
        jps \in UNION {[1..n -> {"JP1", "JP2"}] : n \in 1..MaxJourneys}}

\* Documents whose journey departs at a time with seconds.
SecondDocs ==
    {Document(<<Service(SV1, Absent), Service(SV2, Absent)>>,
              SectionsOf(DurationCode(-1, 5, -1), DurationCode(-1, 5, -1),
                         DurationCode(-1, 5, -1)),
              <<VehicleJourney(1, jp, <<DayNames[1]>>, DepartureText(8, 0, 15))>>) :
        jp \in {"JP1", "JP2", "JP3"}}

\* Documents with two services that both declare defaults; the journey
\* has its own weekly pattern or none.
DefaultDocs ==
    {Document(<<[Service(SV1, <<RangeText(0, 4)>>)
                    EXCEPT !.DaysOfNonOperation = <<AllBankHolidays>>],
                Service(SV2, <<Weekend>>)>>,
              SectionsOf(DurationCode(-1, 5, -1), DurationCode(-1, 5, -1),
                         DurationCode(-1, 5, -1)),
              <<VehicleJourney(1, jp, days, DepartureText(8, 0, 0))>>) :
        jp \in {"JP1", "JP2"}, days \in {Absent, <<DayNames[6]>>}}

Docs == CalendarDocs \cup ClockDocs \cup SparseDocs \cup SecondDocs \cup DefaultDocs

NoDocument == Document(<<>>, <<>>, <<>>)

\* Tables handed to get_stop_times and get_trips directly: up to MaxRows
\* records over two trips.
TableRow(trip, seq) ==
    [stop_id            |-> IF seq = 1 THEN "A" ELSE "B",
     stop_sequence      |-> seq,
     timepoint          |-> IF seq = 1 THEN 1 ELSE 0,
     arrival_time       |-> FormatTime(8, CombineTime(8, 5 * (seq - 1))),
     departure_time     |-> FormatTime(8, CombineTime(8, 5 * (seq - 1))),
     trip_id            |-> trip,
     route_id           |-> "R1",
     vehicle_journey_id |-> <<"V", "J">> \o trip,
     service_ref        |-> SV1,
     direction_id       |-> 1,
     trip_headsign      |-> "Dest1",
     start_date         |-> <<"2", "0", "2", "4", "0", "1", "0", "1">>,
     end_date           |-> <<"2", "0", "2", "4", "1", "2", "3", "1">>,
     weekdays           |-> DayNames[1],
     non_operative_days |-> None,
     service_id         |-> SV1 \o <<"_">> \o DayNames[1],
     arrival_dt         |-> CombineTime(8, 5 * (seq - 1)),
     departure_dt       |-> CombineTime(8, 5 * (seq - 1))]

TableRows == {TableRow(trip, seq) : trip \in {<<"T", "1">>, <<"T", "2">>}, seq \in 1..2}

Tables == UNION {[1..n -> TableRows] : n \in 1..MaxRows}

\* Stop points: up to MaxStops of them, in either document shape.  A TfL
\* stop point has no location, an OSGB36 location, a longitude/latitude
\* location or a location that is no number.
StopIds == {<<"4", "9", "0", "A">>, <<"4", "9", "0", "B">>}

Locations ==
    {<<None, None>>, <<<<"5", "2", "9", "0", "0", "0">>, <<"1", "8", "1", "0", "0", "0">>>>, <<<<"0">>, <<"5", "1">>>>, <<<<"e", "a", "s", "t">>, <<"n", "o", "r", "t", "h">>>>}

StopPoint(stop_id, location) ==
    [AtcoCode |-> stop_id, CommonName |-> <<"N">> \o stop_id,
     Easting |-> location[1], Northing |-> location[2]]

AnnotatedStopPointRef(stop_id) == [StopPointRef |-> stop_id]

StopDocs ==
    {[shape |-> "StopPoint", points |-> ps] :
        ps \in UNION {[1..n -> {StopPoint(id, loc) : id \in StopIds, loc \in Locations}] :
                         n \in 1..MaxStops}}
    \cup
    {[shape |-> "AnnotatedStopPointRef", points |-> ps] :
        ps \in UNION {[1..n -> {AnnotatedStopPointRef(id) : id \in StopIds}] :
                         n \in 1..MaxStops}}

\* The NaPTAN table: up to two rows; a stop may be listed twice.
NaptanRow(stop_id) ==
    [stop_id |-> stop_id, stop_lon |-> Float(0), stop_lat |-> Float(51),
     stop_name |-> <<"N">> \o stop_id]

NaptanTables == UNION {[1..n -> {NaptanRow(id) : id \in StopIds}] : n \in 0..2}

-----------------------------------------------------------------------------
(* The state machine *)

\* No stop reader at work.
NoStops ==
    /\ data = <<>>
    /\ naptan_stops = <<>>
    /\ stop_data = NotComputed

\* The calendar tables are not built yet and the provider was not called.
NoTables ==
    /\ calendar = NotComputed
    /\ calendar_dates = NotComputed
    /\ bank_holidays = NoDates
    /\ queries = 0

Idle ==
    /\ runtime = None
    /\ duration_out = NotComputed
    /\ dayinfo = <<None, None>>
    /\ day_info = <<NotComputed, NotComputed>>
    /\ NoStops

NoRun ==
    /\ doc = NoDocument
    /\ i = 1
    /\ gtfs_info = <<>>
    /\ section_times = Unbound
    /\ stop_times = NotComputed
    /\ trips = NotComputed
    /\ NoTables

\* A conversion run: process_vehicle_journeys on a document, then the tables.
Init ==
    /\ Idle
    /\ doc \in Docs
    /\ pc = "journeys"
    /\ i = 1
    /\ gtfs_info = <<>>
    /\ section_times = Unbound
    /\ stop_times = NotComputed
    /\ trips = NotComputed
    /\ NoTables

\* One iteration of the journey loop of process_vehicle_journeys.  An
\* exception ends the run; pc then names it.
ProcessJourney ==
    /\ pc = "journeys"
    /\ i <= Len(doc.vjourneys)
    /\ \E w \in {WalkJourney(doc, doc.vjourneys[i], section_times)} :
       IF w.err # None
       THEN /\ pc' = w.err[1]
            /\ UNCHANGED <<i, gtfs_info, section_times>>
       ELSE /\ gtfs_info' = gtfs_info \o w.section_times
            /\ section_times' = w.section_times
            /\ i' = i + 1
            /\ pc' = pc
    /\ UNCHANGED <<calendarVars, stopVars, runtime, duration_out, dayinfo, day_info, doc, stop_times, trips>>

\* The end of process_vehicle_journeys: gtfs_info = generate_service_id(gtfs_info).
GenerateServiceId ==
    /\ pc = "journeys"
    /\ i > Len(doc.vjourneys)
    /\ \E r \in {generate_service_id(gtfs_info)} :
       gtfs_info' = r.value /\ pc' = "generated"
    /\ UNCHANGED <<calendarVars, stopVars, runtime, duration_out, dayinfo, day_info, doc, i, section_times,
                   stop_times, trips>>

GetStopTimes ==
    /\ pc = "generated"
    /\ stop_times = NotComputed
    /\ stop_times' = Ok(get_stop_times(gtfs_info))
    /\ UNCHANGED <<calendarVars, stopVars, runtime, duration_out, dayinfo, day_info, doc, pc, i, gtfs_info,
                   section_times, trips>>

GetTrips ==
    /\ pc = "generated"
    /\ trips = NotComputed
    /\ trips' = Ok(get_trips(gtfs_info))
    /\ UNCHANGED <<calendarVars, stopVars, runtime, duration_out, dayinfo, day_info, doc, pc, i, gtfs_info,
                   section_times, stop_times>>

GetCalendar ==
    /\ pc = "generated"
    /\ calendar = NotComputed
    /\ calendar' = get_calendar(gtfs_info)
    /\ UNCHANGED <<stopVars, runtime, duration_out, dayinfo, day_info, doc, pc, i,
                   gtfs_info, section_times, stop_times, trips, calendar_dates,
                   bank_holidays, queries>>

\* get_calendar_dates; the provider answers from one of its holiday lists.
GetCalendarDates ==
    /\ pc = "generated"
    /\ calendar_dates = NotComputed
    /\ \E holidays \in HolidayLists :
         \E r \in {get_calendar_dates(gtfs_info, holidays)} :
            /\ calendar_dates' = r
            /\ IF r.value.queried
               THEN /\ queries' = queries + 1
                    /\ bank_holidays' = get_bank_holiday_dates(holidays, DropNa(gtfs_info))
               ELSE UNCHANGED <<queries, bank_holidays>>
    /\ UNCHANGED <<stopVars, runtime, duration_out, dayinfo, day_info, doc, pc, i,
                   gtfs_info, section_times, stop_times, trips, calendar>>

Next == ProcessJourney \/ GenerateServiceId \/ GetStopTimes \/ GetTrips \/ GetCalendar

\* A conversion run over a document with date exceptions, then
\* get_calendar_dates.
InitDates ==
    /\ Idle
    /\ doc \in HolidayDocs
    /\ pc = "journeys"
    /\ i = 1
    /\ gtfs_info = <<>>
    /\ section_times = Unbound
    /\ stop_times = NotComputed
    /\ trips = NotComputed
    /\ NoTables

NextDates == ProcessJourney \/ GenerateServiceId \/ GetCalendarDates

SpecDates == InitDates /\ [][NextDates]_vars

Spec == Init /\ [][Next]_vars

\* get_stop_times and get_trips applied to a table given directly.
InitTables ==
    /\ Idle
    /\ doc = NoDocument
    /\ pc = "generated"
    /\ i = 1
    /\ gtfs_info \in Tables
    /\ section_times = Unbound
    /\ stop_times = NotComputed
    /\ trips = NotComputed
    /\ NoTables

NextTables == GetStopTimes \/ GetTrips

SpecTables == InitTables /\ [][NextTables]_vars

\* The stop readers applied to the stop points of a document; get_stops
\* picks the reader by the shape of the document.
InitStops ==
    /\ NoRun
    /\ pc = "stops"
    /\ runtime = None
    /\ duration_out = NotComputed
    /\ dayinfo = <<None, None>>
    /\ day_info = <<NotComputed, NotComputed>>
    /\ data \in StopDocs
    /\ naptan_stops \in NaptanTables
    /\ stop_data = NotComputed

GetTflStyleStops ==
    /\ pc = "stops"
    /\ data.shape = "StopPoint"
    /\ stop_data' = _get_tfl_style_stops(data.points, naptan_stops)
    /\ pc' = "stopsread"
    /\ UNCHANGED <<calendarVars, runtime, duration_out, dayinfo, day_info, doc, i,
                   gtfs_info, section_times, stop_times, trips, data, naptan_stops>>

GetTxc21StyleStops ==
    /\ pc = "stops"
    /\ data.shape = "AnnotatedStopPointRef"
    /\ stop_data' = _get_txc_21_style_stops(data.points, naptan_stops)
    /\ pc' = "stopsread"
    /\ UNCHANGED <<calendarVars, runtime, duration_out, dayinfo, day_info, doc, i,
                   gtfs_info, section_times, stop_times, trips, data, naptan_stops>>

NextStops == GetTflStyleStops \/ GetTxc21StyleStops

SpecStops == InitStops /\ [][NextStops]_vars

\* parse_runtime_duration applied to a duration code.
InitDuration ==
    /\ NoRun
    /\ NoStops
    /\ pc = "duration"
    /\ runtime \in ProbeCodes \cup WellFormedCodes
    /\ duration_out = NotComputed
    /\ dayinfo = <<None, None>>
    /\ day_info = <<NotComputed, NotComputed>>

ParseRuntimeDuration ==
    /\ pc = "duration"
    /\ duration_out' = parse_runtime_duration(runtime)
    /\ pc' = "parsed"
    /\ UNCHANGED <<calendarVars, stopVars, runtime, dayinfo, day_info, doc, i, gtfs_info, section_times,
                   stop_times, trips>>

NextDuration == ParseRuntimeDuration

SpecDuration == InitDuration /\ [][NextDuration]_vars

\* parse_day_range applied to two weekly-pattern texts.
InitCalendar ==
    /\ NoRun
    /\ NoStops
    /\ pc = "dayrange"
    /\ runtime = None
    /\ duration_out = NotComputed
    /\ dayinfo \in (DayTexts \cup {None}) \X (DayTexts \cup {None})
    /\ day_info = <<NotComputed, NotComputed>>

ParseDayRange ==
    /\ pc = "dayrange"
    /\ day_info' = <<parse_day_range(dayinfo[1]), parse_day_range(dayinfo[2])>>
    /\ pc' = "dayparsed"
    /\ UNCHANGED <<calendarVars, stopVars, runtime, duration_out, dayinfo, doc, i, gtfs_info, section_times,
                   stop_times, trips>>

NextCalendar == ParseDayRange

SpecCalendar == InitCalendar /\ [][NextCalendar]_vars

-----------------------------------------------------------------------------
(* Properties of parse_runtime_duration *)

\* The text after the leading "PT".
AfterPT(code) == SubSeq(code, 3, Len(code))

\* A numeral followed by its unit marker.
IsSegment(x, unit) ==
    Len(x) >= 2 /\ x[Len(x)] = unit /\ IsInt(SubSeq(x, 1, Len(x) - 1))

SegmentValue(x) == IF Len(x) = 0 THEN 0 ELSE IntOf(SubSeq(x, 1, Len(x) - 1))

\* The ways to cut the text after "PT" into an hour, a minute and a second
\* segment, each possibly empty: <<a, b>> cuts after a and after b characters.
SegmentCuts(code) ==
    LET rest == AfterPT(code)
        n == Len(rest)
    IN {c \in (0..n) \X (0..n) :
          /\ c[1] <= c[2]
          /\ c[1] = 0 \/ IsSegment(SubSeq(rest, 1, c[1]), "H")
          /\ c[2] = c[1] \/ IsSegment(SubSeq(rest, c[1] + 1, c[2]), "M")
          /\ c[2] = n \/ IsSegment(SubSeq(rest, c[2] + 1, n), "S")}

\* 'PT[nH][nM][nS]' with at least one segment.
IsValidCode(code) ==
    /\ Len(code) > 2
    /\ SubSeq(code, 1, 2) = <<"P", "T">>
    /\ SegmentCuts(code) # {}

EncodedSeconds(code) ==
    LET rest == AfterPT(code)
        c == CHOOSE x \in SegmentCuts(code) : TRUE
    IN 3600 * SegmentValue(SubSeq(rest, 1, c[1]))
         + 60 * SegmentValue(SubSeq(rest, c[1] + 1, c[2]))
         + SegmentValue(SubSeq(rest, c[2] + 1, Len(rest)))

\* C1: for every valid duration code 'PT[nH][nM][nS]', parse_runtime_duration
\* returns exactly 3600*hours + 60*minutes + seconds.
C1_ExactSecondCount ==
    (pc = "parsed" /\ IsValidCode(runtime))
        => duration_out = Ok(EncodedSeconds(runtime))

\* C2: for every malformed duration code, parse_runtime_duration ends in an
\* error; it never returns a number.
C2_MalformedCodeFails ==
    (pc = "parsed" /\ ~IsValidCode(runtime)) => duration_out.kind # "ok"

-----------------------------------------------------------------------------
(* Properties of the table built by process_vehicle_journeys *)

Rows(table) == {table[k] : k \in 1..Len(table)}

\* The indices of the records of trip t; with q given, those at stop_sequence q.
TripIndices(table, t) == {k \in 1..Len(table) : table[k].trip_id = t}

SequenceIndices(table, t, q) == {k \in TripIndices(table, t) : table[k].stop_sequence = q}

\* "H+:MM:SS" read as a number of seconds, hours above 23 allowed.
ClockValue(text) ==
    LET hms == Split(text, <<":">>)
    IN 3600 * IntOf(hms[1]) + 60 * IntOf(hms[2]) + IntOf(hms[3])

\* C3: in the table produced by process_vehicle_journeys, for every trip_id
\* the stop_sequence values of its records are exactly 1..n, with no gap and
\* no repeat.
C3_SequenceOneToN ==
    pc = "generated" =>
        \A t \in {r.trip_id : r \in Rows(gtfs_info)} :
            \A q \in 1..Cardinality(TripIndices(gtfs_info, t)) :
                Cardinality(SequenceIndices(gtfs_info, t, q)) = 1

\* C4: within a materialized trip, arrival_time <= departure_time at each
\* stop and departure_time <= arrival_time of the next stop in stop_sequence
\* order, read as clock values.
C4_TimesNeverDecrease ==
    pc = "generated" =>
        \A r \in Rows(gtfs_info) :
            /\ ClockValue(r.arrival_time) <= ClockValue(r.departure_time)
            /\ \A q \in Rows(gtfs_info) :
                 (/\ q.vehicle_journey_id = r.vehicle_journey_id
                  /\ q.trip_id = r.trip_id
                  /\ q.stop_sequence = r.stop_sequence + 1)
                     => ClockValue(r.departure_time) <= ClockValue(q.arrival_time)

\* The scheduled start of the journey a record belongs to.
JourneyStart(r) ==
    LET j == CHOOSE v \in Rows(doc.vjourneys) : v.VehicleJourneyCode = r.vehicle_journey_id
        hms == Split(j.DepartureTime, <<":">>)
    IN 3600 * IntOf(hms[1]) + 60 * IntOf(hms[2])

\* C5: for a journey of under 24 hours that passes midnight of the reference
\* day, every time emitted for an instant after that midnight has the hour
\* 24 + (hour of day), minutes and seconds unchanged.
C5_HourAbove24AfterMidnight ==
    pc = "generated" =>
        \A r \in Rows(gtfs_info) :
            (/\ r.departure_dt - JourneyStart(r) < 24 * 3600
             /\ r.arrival_dt >= 24 * 3600)
                => /\ r.arrival_time = FormatTime(24 + HourOf(r.arrival_dt), r.arrival_dt)
                   /\ r.departure_time = FormatTime(24 + HourOf(r.departure_dt), r.departure_dt)

\* C6: a trip_id with fewer than 2 stop-time records is absent from the
\* results of get_stop_times and of get_trips; one with 2 or more distinct
\* records is in both.
C6_ShortTripsInNoTable ==
    (stop_times.kind = "ok" /\ trips.kind = "ok") =>
        \A t \in {r.trip_id : r \in Rows(gtfs_info)} :
            LET records == {StopTimesColumns(r) : r \in {x \in Rows(gtfs_info) : x.trip_id = t}}
                kept == /\ t \in {r.trip_id : r \in Rows(stop_times.value.rows)}
                        /\ t \in {r.trip_id : r \in Rows(trips.value.rows)}
                absent == /\ t \notin {r.trip_id : r \in Rows(stop_times.value.rows)}
                          /\ t \notin {r.trip_id : r \in Rows(trips.value.rows)}
            IN IF Cardinality(records) < 2 THEN absent ELSE kept

\* C7: after generate_service_id, two journeys with non-null weekly patterns
\* have the same service_id if and only if they agree on service_ref,
\* start_date, end_date and weekdays.
C7_ServiceIdIffSameSignature ==
    pc = "generated" =>
        \A r \in Rows(gtfs_info), q \in Rows(gtfs_info) :
            (r.weekdays # None /\ q.weekdays # None)
                => ((r.service_id = q.service_id)
                      <=> (/\ r.service_ref = q.service_ref
                           /\ r.start_date = q.start_date
                           /\ r.end_date = q.end_date
                           /\ r.weekdays = q.weekdays))

EndsWith(text, suffix) ==
    Len(text) >= Len(suffix)
        /\ SubSeq(text, Len(text) - Len(suffix) + 1, Len(text)) = suffix

\* C8: after generate_service_id, every record of a journey whose resolved
\* weekly pattern is null has a non-null service_id ending in '_default'.
C8_NullPatternGetsDefaultId ==
    pc = "generated" =>
        \A r \in Rows(gtfs_info) :
            r.weekdays = None
                => /\ r.service_id # None
                   /\ EndsWith(r.service_id, <<"_", "d", "e", "f", "a", "u", "l", "t">>)

-----------------------------------------------------------------------------
(* Properties of parse_day_range *)

\* The seven flags with exactly the days a..b set.
FlagsBetween(a, b) ==
    [monday    |-> IF a <= 0 /\ 0 <= b THEN 1 ELSE 0,
     tuesday   |-> IF a <= 1 /\ 1 <= b THEN 1 ELSE 0,
     wednesday |-> IF a <= 2 /\ 2 <= b THEN 1 ELSE 0,
     thursday  |-> IF a <= 3 /\ 3 <= b THEN 1 ELSE 0,
     friday    |-> IF a <= 4 /\ 4 <= b THEN 1 ELSE 0,
     saturday  |-> IF a <= 5 /\ 5 <= b THEN 1 ELSE 0,
     sunday    |-> IF a <= 6 /\ 6 <= b THEN 1 ELSE 0]

NoDayFlags ==
    [monday |-> 0, tuesday |-> 0, wednesday |-> 0, thursday |-> 0,
     friday |-> 0, saturday |-> 0, sunday |-> 0]

\* C9: parse_day_range gives the same seven flags for 'DayAToDayB' (DayA not
\* after DayB) and for the pipe-delimited list of the days DayA..DayB, namely
\* exactly those days; 'weekend' gives the flags of 'saturday|sunday'; a null
\* input gives seven flags 0.
C9_RangeListWeekendAgree ==
    pc = "dayparsed" =>
        /\ \A n1 \in Spellings, n2 \in Spellings, a \in 0..6, b \in 0..6 :
             (a <= b /\ dayinfo = <<RangeTextOf(n1, a, b), ListTextOf(n2, a, b)>>)
                 => /\ day_info[1].kind = "ok"
                    /\ day_info[1] = day_info[2]
                    /\ day_info[1].value = FlagsBetween(a, b)
        /\ \A n2 \in Spellings :
             (dayinfo[1] \in {Weekend, Lower(Weekend)} /\ dayinfo[2] = ListTextOf(n2, 5, 6))
                 => /\ day_info[1].kind = "ok"
                    /\ day_info[1] = day_info[2]
                    /\ day_info[1].value = FlagsBetween(5, 6)
        /\ dayinfo[1] = None => day_info[1] = Ok(NoDayFlags)

\* 'mondayTotuesday' and 'monday|tuesday' have both been parsed.
C9_Witness ==
    /\ pc = "dayparsed"
    /\ dayinfo = <<RangeTextOf(num_to_weekday, 0, 1), ListTextOf(num_to_weekday, 0, 1)>>
    /\ day_info[1].kind = "ok"
    /\ day_info[2].value.tuesday = 1

-----------------------------------------------------------------------------
(* Canonical weekly patterns *)

\* Two weekly-pattern texts that denote the same non-empty set of days.
SameDays(x, y) ==
    /\ x # None /\ y # None
    /\ parse_day_range(x).kind = "ok"
    /\ parse_day_range(x).value # NoDayFlags
    /\ parse_day_range(x) = parse_day_range(y)

\* The text after the section id in a trip_id.
TripIdSuffix(r) ==
    LET parts == Split(r.trip_id, <<"_">>)
    IN Join(<<"_">>, Tail(parts))

\* C10: two journeys of the same service and validity window whose source
\* patterns denote the same set of days carry equal weekdays strings, and so
\* the same service_id and the same trip_id suffix.
C10_CanonicalWeekdays ==
    pc = "generated" =>
        \A r \in Rows(gtfs_info), q \in Rows(gtfs_info) :
            (/\ r.service_ref = q.service_ref
             /\ r.start_date = q.start_date
             /\ r.end_date = q.end_date
             /\ SameDays(r.weekdays, q.weekdays))
                => /\ r.weekdays = q.weekdays
                   /\ r.service_id = q.service_id
                   /\ TripIdSuffix(r) = TripIdSuffix(q)

-----------------------------------------------------------------------------
(* Properties of get_calendar *)

\* C11: in the table returned by get_calendar for the output of
\* process_vehicle_journeys, every service_id (a calendar identifier, not the
\* null of a record without one) appears in exactly one row.
C11_OneRowPerServiceId ==
    (pc = "generated" /\ calendar.kind = "ok") =>
        \A j, k \in 1..Len(calendar.value.rows) :
            (/\ calendar.value.rows[j].service_id # None
             /\ calendar.value.rows[j].service_id = calendar.value.rows[k].service_id)
                => j = k

-----------------------------------------------------------------------------
(* Properties of get_calendar_dates *)

\* The service_id values of the records that carry an exception identifier.
ServicesWithExceptions(table) == {r.service_id : r \in Rows(DropNa(table))}

\* The exception identifiers of the table.
ExceptionIdentifiers(table) ==
    UNION {IdentifiersOf(r.non_operative_days) : r \in Rows(DropNa(table))}

\* The dates the provider returned: none when it returned None.
ReturnedDates == IF bank_holidays = NoDates THEN {} ELSE Rows(bank_holidays)

IsUnknownHoliday(holiday) == holiday \notin known_holidays /\ holiday # AllBankHolidays

\* C13: an unknown exception identifier produces a warning and is otherwise
\* processed as if absent: when every exception identifier of the input is
\* unknown, get_calendar_dates emits no exception record, as it does for an
\* input without exception identifiers.
C13_UnknownHolidayAsAbsent ==
    (/\ pc = "generated"
     /\ calendar_dates # NotComputed
     /\ \A holiday \in ExceptionIdentifiers(gtfs_info) : IsUnknownHoliday(holiday))
        => /\ calendar_dates.kind = "ok"
           /\ calendar_dates.value.warned = ExceptionIdentifiers(gtfs_info)
           /\ calendar_dates.value.returned = "None"
           /\ calendar_dates.value.rows = <<>>

-----------------------------------------------------------------------------
(* Properties of process_vehicle_journeys: error handling *)

\* The journey references a journey pattern that is not in the index.
AbsentPattern(journey) ==
    PatternRows(doc.service_jp_info, journey.JourneyPatternRef) = <<>>

\* C14: a vehicle journey whose journey-pattern identifier is absent from
\* the index is skipped; the run does not abort at it, and every other
\* journey is materialized.
C14_AbsentPatternSkipped ==
    /\ pc = "IndexError" => ~AbsentPattern(doc.vjourneys[i])
    /\ pc = "generated" =>
          \A k \in 1..Len(doc.vjourneys) :
              ~AbsentPattern(doc.vjourneys[k]) =>
                  \E r \in Rows(gtfs_info) :
                      r.vehicle_journey_id = doc.vjourneys[k].VehicleJourneyCode

\* The weekly-pattern text has a recognizable structure: it holds 'weekend',
\* or is a day name, a range 'DayAToDayB' with DayA not after DayB, or a
\* pipe-delimited list of day names.
IsDayName(text) == IsWeekdayKey(Lower(text))

Recognizable(text) ==
    \/ Contains(Lower(Strip(text)), Lower(Weekend))
    \/ IsDayName(text)
    \/ \E names \in Spellings, a \in 0..6, b \in 0..6 :
          a <= b /\ text = RangeTextOf(names, a, b)
    \/ LET parts == Split(text, <<"|">>)
       IN \A k \in 1..Len(parts) : IsDayName(parts[k])

\* C15: a weekly-pattern string without recognizable structure (such as
\* 'NotSaturday') is treated as 'no schedule': parse_day_range yields the
\* all-inactive row for it and get_calendar returns a table with an
\* all-inactive row for its service_id; it is no fatal error.
C15_UnrecognizedPatternInactive ==
    (pc = "generated" /\ calendar # NotComputed) =>
        \A r \in Rows(gtfs_info) :
            (r.weekdays # None /\ ~Recognizable(r.weekdays)) =>
                /\ parse_day_range(r.weekdays) = Ok(NoDayFlags)
                /\ calendar.kind = "ok"
                /\ \E k \in 1..Len(calendar.value.rows) :
                      calendar.value.rows[k] =
                          CalendarRow([service_id |-> r.service_id,
                                       start_date |-> r.start_date,
                                       end_date |-> r.end_date], NoDayFlags)

\* The journey's pattern is in the index and references a section of the
\* document.
MatchesSection(journey) ==
    \E k \in 1..Len(doc.service_jp_info), n \in 1..Len(doc.sections) :
        /\ doc.service_jp_info[k].journey_pattern_id = journey.JourneyPatternRef
        /\ doc.service_jp_info[k].jp_section_reference = doc.sections[n].id

\* The document has no vehicle journey, or none whose pattern matches a
\* section.
NothingToMaterialize ==
    \A k \in 1..Len(doc.vjourneys) :
        ~AbsentPattern(doc.vjourneys[k]) /\ ~MatchesSection(doc.vjourneys[k])

\* C16: a run over a document with no vehicle journeys, or none whose pattern
\* matches a section, completes without error and yields empty tables with
\* the expected columns: process_vehicle_journeys returns normally, and
\* get_stop_times returns a table with exactly the stop_times columns, also
\* when every trip was filtered out.
C16_EmptyRunCompletes ==
    /\ NothingToMaterialize =>
          /\ pc \in {"journeys", "generated"}
          /\ pc = "generated" => gtfs_info = <<>>
    /\ (pc = "generated" /\ stop_times # NotComputed /\ stop_times.value.rows = <<>>)
          => stop_times.value.columns = stop_times_cols

-----------------------------------------------------------------------------
(* Properties of the stop readers *)

\* The stop points of the document the reader can resolve: those NaPTAN
\* holds and, in the TfL shape, those with an Easting and a Northing.
ResolvedPoints ==
    {k \in 1..Len(data.points) :
        IF data.shape = "StopPoint"
        THEN \/ NaptanRows(naptan_stops, data.points[k].AtcoCode) # <<>>
             \/ CanFloat(data.points[k].Easting) /\ CanFloat(data.points[k].Northing)
        ELSE NaptanRows(naptan_stops, data.points[k].StopPointRef) # <<>>}

\* C17: the table the stop readers return has exactly the four columns
\* stop_id, stop_name, stop_lat, stop_lon, no missing value in any of them,
\* and one row per stop point that could be resolved, whether from NaPTAN or
\* (TfL shape) from the document's own Easting/Northing.
C17_StopsTableShape ==
    (pc = "stopsread" /\ stop_data.kind = "ok" /\ stop_data.value.rows # <<>>) =>
        LET t == stop_data.value IN
        /\ Len(t.columns) = 4
        /\ {t.columns[k] : k \in 1..Len(t.columns)} =
               {"stop_id", "stop_name", "stop_lat", "stop_lon"}
        /\ \A k \in 1..Len(t.rows) :
              /\ t.rows[k].stop_id # None
              /\ t.rows[k].stop_name # None
              /\ t.rows[k].stop_lat # None
              /\ t.rows[k].stop_lon # None
        /\ Len(t.rows) = Cardinality(ResolvedPoints)

-----------------------------------------------------------------------------
(* Properties of the walk over the timing links *)

\* The section of the document with the given id (the sections of a
\* document have different ids).
SectionById(id) ==
    LET HasId(section) == section.id = id
    IN SelectSeq(doc.sections, HasId)

\* The timing links of the sections the references name, in that order.
RECURSIVE LinksOf(_)
LinksOf(refs) ==
    IF Len(refs) = 0 THEN <<>>
    ELSE (IF SectionById(refs[1]) = <<>> THEN <<>> ELSE SectionById(refs[1])[1].links)
         \o LinksOf(Tail(refs))

\* The section references of the journey's pattern, in the order the
\* pattern lists them.
SectionRefs(journey) ==
    LET patterns == PatternRows(doc.service_jp_info, journey.JourneyPatternRef)
    IN [k \in 1..Len(patterns) |-> patterns[k].jp_section_reference]

\* The timing links of the journey: those of its sections, concatenated.
JourneyLinks(journey) == LinksOf(SectionRefs(journey))

\* d1 + ... + dn for the first n links, each duration as parsed.
RECURSIVE SumDurations(_, _)
SumDurations(links, n) ==
    IF n = 0 THEN 0
    ELSE SumDurations(links, n - 1) + parse_runtime_duration(links[n].RunTime).value

\* The scheduled departure time T of the journey, hour, minute and second.
ScheduledStart(journey) ==
    LET hms == Split(journey.DepartureTime, <<":">>)
    IN 3600 * IntOf(hms[1]) + 60 * IntOf(hms[2]) + IntOf(hms[3])

\* C18: for a journey departing at T (hour, minute, second) over links with
\* durations d1..dn, the record with stop_sequence 1 has arrival =
\* departure = T, and the record with stop_sequence k >= 2 is the
\* destination stop of link k-1 with arrival T + d1 + ... + d(k-1).
C18_EachLinkCountedOnce ==
    pc = "generated" =>
        \A n \in 1..Len(doc.vjourneys) : \A r \in Rows(gtfs_info) :
            LET journey == doc.vjourneys[n]
                links == JourneyLinks(journey)
                k == r.stop_sequence
            IN r.vehicle_journey_id = journey.VehicleJourneyCode =>
                  /\ k = 1 => /\ r.arrival_dt = ScheduledStart(journey)
                              /\ r.departure_dt = ScheduledStart(journey)
                  /\ (k >= 2 /\ k <= Len(links) + 1) =>
                        /\ r.stop_id = links[k - 1].To
                        /\ r.arrival_dt =
                               ScheduledStart(journey) + SumDurations(links, k - 1)

\* The id of the first section of the document that the journey's
\* pattern references.
FirstMatchedSection(journey) ==
    LET refs == SectionRefs(journey)
        Matched(section) == \E k \in 1..Len(refs) : refs[k] = section.id
    IN SelectSeq(doc.sections, Matched)[1].id

\* C19: all stop-time records of one vehicle journey carry the same
\* trip_id, '<id of the first matched section>_<weekdays>_<HHMM>', also
\* when the journey's pattern references two or more sections.
C19_OneTripIdPerJourney ==
    pc = "generated" =>
        \A n \in 1..Len(doc.vjourneys) : \A r \in Rows(gtfs_info) :
            LET journey == doc.vjourneys[n]
                ctx == JourneyContext(doc, journey,
                           PatternRows(doc.service_jp_info, journey.JourneyPatternRef))
            IN r.vehicle_journey_id = journey.VehicleJourneyCode =>
                  r.trip_id = TripId(FirstMatchedSection(journey), ctx.weekdays,
                                     ctx.hour, ctx.minute)

\* The journey's records hold stop s with stop_sequence q.
HasRecord(journey, q, s) ==
    \E r \in Rows(gtfs_info) :
        /\ r.vehicle_journey_id = journey.VehicleJourneyCode
        /\ r.stop_sequence = q
        /\ r.stop_id = s

\* C20: for a journey whose pattern references sections s1..sm, the
\* materialized stop sequence is the concatenation of the walks of s1..sm
\* in the order the pattern lists them, and the records of every referenced
\* section are present in the table process_vehicle_journeys returns: the
\* j-th link of the concatenation has its From stop at stop_sequence j, and
\* the last link its To stop after it.
C20_AllSectionsInPatternOrder ==
    pc = "generated" =>
        \A n \in 1..Len(doc.vjourneys) :
            LET journey == doc.vjourneys[n]
                links == JourneyLinks(journey)
            IN /\ \A j \in 1..Len(links) : HasRecord(journey, j, links[j].From)
               /\ Len(links) > 0 =>
                      HasRecord(journey, Len(links) + 1, links[Len(links)].To)

-----------------------------------------------------------------------------
(* Independence of the journeys *)

\* C21: the contribution of a vehicle journey depends only on that journey
\* and the read-only indices: the rows appended while processing journey i
\* all carry its vehicle_journey_id, and a journey none of whose referenced
\* sections is found appends no rows and does not fail for want of an
\* earlier journey.
C21_JourneysIndependent ==
    [][(pc = "journeys" /\ i <= Len(doc.vjourneys)) =>
          /\ pc' # "NameError"
          /\ pc' = "journeys" =>
                /\ \A k \in (Len(gtfs_info) + 1)..Len(gtfs_info') :
                       gtfs_info'[k].vehicle_journey_id =
                           doc.vjourneys[i].VehicleJourneyCode
                /\ ~MatchesSection(doc.vjourneys[i]) => gtfs_info' = gtfs_info]_vars

-----------------------------------------------------------------------------
(* Resolution of the effective schedule of a journey *)

\* The services of the document with the code the journey's ServiceRef names.
OwnService(journey) ==
    LET Named(service) == service.ServiceCode = journey.ServiceRef
    IN SelectSeq(doc.services, Named)

\* The journey's own value when it has one, otherwise the default of its
\* own service, otherwise null.
ResolvedWeekdays(journey) ==
    IF get_weekday_info(journey) # None THEN get_weekday_info(journey)
    ELSE IF OwnService(journey) = <<>> THEN None
    ELSE JoinElementNames(OwnService(journey)[1].DaysOfWeek)

ResolvedExceptions(journey) ==
    IF get_calendar_dates_exceptions(journey) # None
    THEN get_calendar_dates_exceptions(journey)
    ELSE IF OwnService(journey) = <<>> THEN None
    ELSE JoinElementNames(OwnService(journey)[1].DaysOfNonOperation)

\* C22: for every vehicle journey the effective weekly pattern and the
\* effective exception identifiers are the journey's own value when it has
\* one, otherwise the default of the service its ServiceRef names,
\* otherwise null, also in a document with several services.
C22_DefaultOfOwnService ==
    pc = "generated" =>
        \A n \in 1..Len(doc.vjourneys) : \A r \in Rows(gtfs_info) :
            r.vehicle_journey_id = doc.vjourneys[n].VehicleJourneyCode =>
                /\ r.weekdays = ResolvedWeekdays(doc.vjourneys[n])
                /\ r.stop_sequence = 1 =>
                       r.non_operative_days = ResolvedExceptions(doc.vjourneys[n])

-----------------------------------------------------------------------------
(* Weekly patterns joined from several day elements *)

\* The days one DaysOfWeek element denotes: a range 'DayAToDayB', 'Weekend'
\* or a single day.
ElementDays(elem) ==
    IF elem = Weekend THEN {5, 6}
    ELSE IF \E a \in 0..6, b \in 0..6 : elem = RangeText(a, b)
    THEN UNION {a..b : a \in {x \in 0..6 : \E b \in 0..6 : elem = RangeText(x, b)},
                       b \in {y \in 0..6 : \E a \in 0..6 : elem = RangeText(a, y)}}
    ELSE {n \in 0..6 : DayNames[n + 1] = elem}

\* Lists of several day elements of one DaysOfWeek.
ElementLists ==
    {<<RangeText(0, 4), Weekend>>, <<RangeText(0, 4), DayNames[6]>>,
     <<DayNames[6], DayNames[7]>>, <<DayNames[1], DayNames[2], DayNames[3]>>}

\* C23: for a weekly-pattern string that get_weekday_info builds by joining
\* several day elements with '|', an element being a single day, a range
\* 'DayAToDayB' or 'Weekend', parse_day_range does not fail and returns the
\* flags of the union of the days the elements denote.
C23_JoinedElementsUnion ==
    pc = "dayparsed" =>
        \A elems \in ElementLists :
            dayinfo[1] = JoinElementNames(elems) =>
                day_info[1] = Ok(DayRow(UNION {ElementDays(elems[k]) : k \in 1..Len(elems)}))

-----------------------------------------------------------------------------
(* The trips table *)

\* C24: in the table get_trips returns for the output of
\* process_vehicle_journeys every trip_id appears in at most one row, also
\* when two vehicle journeys share section, weekly pattern and departure
\* hour and minute but differ in route or service.
C24_TripIdUnique ==
    trips # NotComputed =>
        \A a \in 1..Len(trips.value.rows), b \in 1..Len(trips.value.rows) :
            trips.value.rows[a].trip_id = trips.value.rows[b].trip_id => a = b

====
